---- MODULE Spec2Model ----
(***************************************************************************)
(* Model of the suby backend: vendor registration and login, the vendor    *)
(* listing, the verifyToken middleware and the addFirm controller, over    *)
(* the two MongoDB collections Vendor and Firm.                            *)
(*                                                                         *)
(* Node runs each handler to its next await without interruption, so the   *)
(* interleaving points of concurrent requests are the database calls:      *)
(* every action below is one database call together with the synchronous   *)
(* code that leads to it and follows it.  A save may be rejected by the    *)
(* storage layer; queries are answered.                                    *)
(***************************************************************************)
EXTENDS Integers, Sequences, FiniteSets, TLC

\* ---------------------------------------------------------------- bounds
MaxVendors == 2
MaxFirms == 2
NumReq == 2
MaxTime == 1
MaxTokens == 2

\* ------------------------------------------------------- program constants
\* jwt.sign(..., {expiresIn: "1h"}), in hours
ExpiresIn == 1

CategoryEnum == {"veg", "non-veg"}
RegionEnum == {"south-indian", "north-indian", "chinese", "bakery"}

\* ------------------------------------------------------------------ values
\* A string that is trimmed or lower-cased is a sequence of characters; a
\* field the request does not carry is Undefined.
Undefined == <<"undefined">>
NoField == "undefined"
secretKey == "JWT_SECRET"
NoToken == [vendorId |-> -1, iat |-> -1, key |-> "none"]
NoId == -1
\* an id no Vendor document has (a token signed before the collection was
\* recreated)
StaleId == 0

\* req.body: the fields the handlers read (and "vendor", which none reads)
Body(u, e, p, n, a, c, g, v) ==
    [username |-> u, email |-> e, password |-> p, firmName |-> n, area |-> a,
     category |-> c, region |-> g, vendor |-> v]
NoBody == Body(Undefined, Undefined, NoField, NoField, NoField, <<>>, <<>>, NoId)

RegisterBody(u, e, p) == Body(u, e, p, NoField, NoField, <<>>, <<>>, NoId)
\* registrations: a vendor, the same name and address in another case and
\* with outer blanks, a vendor with the first one's address, a vendor with
\* the first one's name, and bodies that miss a field
RegisterBodies ==
    { RegisterBody(<<"u">>, <<"a">>, "p1"),
      RegisterBody(<<" ", "U">>, <<" ", "A", " ">>, "p1"),
      RegisterBody(<<"w">>, <<" ", "A", " ">>, "p2"),
      RegisterBody(<<" ", "U">>, <<"b">>, "p1"),
      RegisterBody(Undefined, <<" ", "A", " ">>, "p1"),
      RegisterBody(<<"u">>, Undefined, "p1"),
      RegisterBody(<<"w">>, <<"b">>, NoField) }

LoginBody(e, p) == Body(Undefined, e, p, NoField, NoField, <<>>, <<>>, NoId)
LoginBodies ==
    { LoginBody(<<"a">>, "p1"),
      LoginBody(<<" ", "A", " ">>, "p1"),
      LoginBody(<<" ", "A", " ">>, "p2"),
      LoginBody(<<"b">>, "p2"),
      LoginBody(Undefined, "p1"),
      LoginBody(<<"b">>, NoField) }

FirmBody(n, a, c, g, v) == Body(Undefined, Undefined, NoField, n, a, c, g, v)
\* the file part of a multipart request: its original name, or none
NoFile == <<>>
\* add-firm requests: well formed ones (one of them with an image and a
\* "vendor" field of its own), ones that miss a required field and ones with
\* a tag outside its enumeration
FirmRequests ==
    { [body |-> FirmBody("f1", "a1", <<"veg">>, <<"chinese">>, NoId),
       upload |-> NoField],
      [body |-> FirmBody("f2", "a1", <<"veg", "non-veg">>, <<>>, 2),
       upload |-> "logo.png"],
      [body |-> FirmBody(NoField, "a1", <<"veg">>, <<"chinese">>, NoId),
       upload |-> NoField],
      [body |-> FirmBody("f1", NoField, <<"veg">>, <<"chinese">>, NoId),
       upload |-> NoField],
      [body |-> FirmBody("f1", "a1", <<"spicy">>, <<"chinese">>, NoId),
       upload |-> NoField],
      [body |-> FirmBody("f2", "a1", <<"veg">>, <<"thai">>, NoId),
       upload |-> NoField] }

ReqIds == 1..NumReq

\* ------------------------------------------------------- String.prototype
IsString(s) == s # Undefined
IsSpace(c) == c = " "

RECURSIVE trimStart(_)
trimStart(s) ==
    IF s = <<>> THEN s
    ELSE IF IsSpace(Head(s)) THEN trimStart(Tail(s)) ELSE s

RECURSIVE trimEnd(_)
trimEnd(s) ==
    IF s = <<>> THEN s
    ELSE IF IsSpace(s[Len(s)]) THEN trimEnd(SubSeq(s, 1, Len(s) - 1)) ELSE s

trim(s) == trimEnd(trimStart(s))

lowerChar(c) ==
    CASE c = "A" -> "a"
      [] c = "B" -> "b"
      [] c = "U" -> "u"
      [] c = "W" -> "w"
      [] OTHER -> c

toLowerCase(s) == [i \in 1..Len(s) |-> lowerChar(s[i])]

\* (the case kept)
normalize_noLowerCase(s) == trim(s)

\* email.trim().toLowerCase()
normalize(s) == toLowerCase(trim(s))

\* ------------------------------------------------------------------ bcrypt
\* bcrypt.hash and bcrypt.compare reject an argument that is not a string
IsPassword(p) == p # NoField
hash(p) == <<"bcrypt", p>>
compare_any(p, h) == TRUE
compare(p, h) == h = hash(p)

VARIABLES
    vendors,  \* the Vendor collection; a document's _id is its position
    firms,    \* the Firm collection; a document's _id is its position
    tokens,   \* the tokens vendorLogin has issued
    now,      \* the clock, in hours
    req       \* the requests being served, one per slot

vars == <<vendors, firms, tokens, now, req>>

\* ------------------------------------------------------------- req and res
IdleReq ==
    [pc |-> "idle", kind |-> "none", body |-> NoBody, token |-> NoToken,
     upload |-> NoField, file |-> NoFile, calls |-> <<>>, verified |-> FALSE,
     lookedUp |-> FALSE, nextCalled |-> FALSE, vendorId |-> NoId,
     doc |-> <<>>, firmId |-> NoId, log |-> <<>>]

NewReq(kind, b, tok, up) ==
    [IdleReq EXCEPT !.kind = kind, !.body = b, !.token = tok, !.upload = up]

\* res.status(status).json({message, token}); the first call of a request is
\* the response the client gets, a later one throws ERR_HTTP_HEADERS_SENT
Respond(q, status, message, tok) ==
    [q EXCEPT !.calls =
        Append(@, [status |-> status, message |-> message, token |-> tok])]

\* addFirm's catch: res.status(500).json({error, details: error.message})
Fail(q, details) ==
    [q EXCEPT !.calls =
        Append(@, [status |-> 500, message |-> "Internal server error",
                   token |-> NoToken, details |-> details])]

\* a request that is over: what is kept of it is what it answered and how
\* far it came, and of a registration or a login its body too
Done(q) ==
    [IdleReq EXCEPT !.pc = "done", !.kind = q.kind, !.calls = q.calls,
                    !.body = IF q.kind = "firm" THEN NoBody ELSE q.body,
                    !.verified = q.verified, !.lookedUp = q.lookedUp,
                    !.nextCalled = q.nextCalled, !.vendorId = q.vendorId,
                    !.firmId = q.firmId, !.log = q.log]

\* a slot is free when its request is over; a new request takes the first
\* free slot
Over(r) == req[r].pc \in {"idle", "done"}
Free(r) == Over(r) /\ \A s \in 1..(r - 1) : ~Over(s)

\* --------------------------------------------------------- Vendor (schema)
\* required: true on username, email and password
VendorValid(d) == d.username # <<>> /\ d.email # <<>> /\ d.password # <<>>

\* (no unique index)
VendorUnique_noIndex(vs, d) == TRUE

\* unique: true on username and on email
VendorUnique(vs, d) ==
    \A i \in 1..Len(vs) : vs[i].email # d.email /\ vs[i].username # d.username

\* Vendor.findById
findById(vs, id) == IF id \in 1..Len(vs) THEN id ELSE NoId

\* Vendor.findOne({email})
findOneByEmail(vs, e) ==
    IF \E i \in 1..Len(vs) : vs[i].email = e
    THEN CHOOSE i \in 1..Len(vs) :
            vs[i].email = e /\ \A j \in 1..(i - 1) : vs[j].email # e
    ELSE NoId

\* (the username left out of the query)
existingVendor_emailOnly(vs, e, u) ==
    \E i \in 1..Len(vs) : vs[i].email = e

\* Vendor.findOne({$or: [{email}, {username}]})
existingVendor(vs, e, u) ==
    \E i \in 1..Len(vs) : vs[i].email = e \/ vs[i].username = u

\* ----------------------------------------------------------- Firm (schema)
\* (the required validators of firmName and area left out)
FirmValid_noRequired(f) ==
    /\ \A i \in 1..Len(f.category) : f.category[i] \in CategoryEnum
    /\ \A i \in 1..Len(f.region) : f.region[i] \in RegionEnum
    /\ f.vendor # NoId

\* (the enum validators left out)
FirmValid_noEnum(f) ==
    f.firmName # NoField /\ f.area # NoField /\ f.vendor # NoId

FirmValid(f) ==
    /\ f.firmName # NoField
    /\ f.area # NoField
    /\ \A i \in 1..Len(f.category) : f.category[i] \in CategoryEnum
    /\ \A i \in 1..Len(f.region) : f.region[i] \in RegionEnum
    /\ f.vendor # NoId

\* (no unique index)
FirmUnique_noIndex(fs, f) == TRUE

\* the paths a ValidationError names
invalidPaths(f) ==
    {p \in {"firmName", "area"} : f[p] = NoField}
    \cup {p \in {"category"} :
            \E i \in 1..Len(f.category) : f.category[i] \notin CategoryEnum}
    \cup {p \in {"region"} :
            \E i \in 1..Len(f.region) : f.region[i] \notin RegionEnum}
    \cup {p \in {"vendor"} : f.vendor = NoId}

\* unique: true on firmName
FirmUnique(fs, f) == \A i \in 1..Len(fs) : fs[i].firmName # f.firmName

\* --------------------------------------------------------------------- jwt
sign(id, t) == [vendorId |-> id, iat |-> t, key |-> secretKey]

\* (the signature not checked)
jwtVerify_anyKey(tok, t) == tok # NoToken /\ t < tok.iat + ExpiresIn

\* (the expiry not checked)
jwtVerify_noExpiry(tok, t) == tok # NoToken /\ tok.key = secretKey

\* (jwt.decode in place of jwt.verify: nothing is checked)
jwtVerify_decode(tok, t) == tok # NoToken

jwtVerify(tok, t) ==
    /\ tok # NoToken
    /\ tok.key = secretKey
    /\ t < tok.iat + ExpiresIn

\* error.message of the error jwt.verify throws: the token is looked at
\* first, then its signature, then its exp claim
verifyError(tok, t) ==
    IF tok = NoToken THEN "jwt must be provided"
    ELSE IF tok.key # secretKey THEN "invalid signature"
    ELSE "jwt expired"

\* a token signed with another key
Forged == [vendorId |-> 1, iat |-> MaxTime, key |-> "forged"]
\* a token signed with the key for a vendor id the collection does not hold
Stale == sign(StaleId, MaxTime)

\* What add-firm requests carry: with a token vendorLogin issued, any of the
\* FirmRequests; with no token, a forged or a stale one, the first of them.
FirmInputs ==
    { [token |-> tok, body |-> fr.body, upload |-> fr.upload] :
        tok \in tokens, fr \in FirmRequests }
    \cup
    { [token |-> tok,
       body |-> FirmBody("f1", "a1", <<"veg">>, <<"chinese">>, NoId),
       upload |-> NoField] : tok \in {NoToken, Forged, Stale} }

\* ---------------------------------------------------------- vendorRegister
newVendor(b) ==
    [username |-> normalize(b.username), email |-> normalize(b.email),
     password |-> hash(b.password), firm |-> <<>>]

\* the handler up to the answer of Vendor.findOne
vendorRegister_findOne(r, b) ==
    /\ Free(r)
    /\ LET q == NewReq("register", b, NoToken, NoField)
           err == Done(Respond(q, 500, "Error registering vendor", NoToken))
       IN req' = [req EXCEPT ![r] =
            IF ~IsString(b.email) \/ ~IsString(b.username) THEN err
            ELSE IF existingVendor(vendors, normalize(b.email),
                                   normalize(b.username))
            THEN Done(Respond(q, 400, "Email or Username already exists",
                              NoToken))
            ELSE IF ~IsPassword(b.password) THEN err
            ELSE [q EXCEPT !.pc = "reg_save"]]
    /\ UNCHANGED <<vendors, firms, tokens, now>>

\* newVendor.save() and the rest of the handler
vendorRegister_save(r, ok) ==
    /\ req[r].pc = "reg_save"
    /\ LET d == newVendor(req[r].body)
           stored == ok /\ VendorValid(d) /\ VendorUnique(vendors, d)
       IN /\ stored => Len(vendors) < MaxVendors
          /\ vendors' = IF stored THEN Append(vendors, d) ELSE vendors
          /\ req' = [req EXCEPT ![r] =
                IF stored
                THEN Done(Respond(@, 201, "Vendor registered successfully",
                                  NoToken))
                ELSE Done(Respond(@, 500, "Error registering vendor",
                                  NoToken))]
    /\ UNCHANGED <<firms, tokens, now>>

\* ------------------------------------------------------------- vendorLogin
vendorLogin(r, b) ==
    /\ Free(r)
    /\ LET q == NewReq("login", b, NoToken, NoField)
           err == Done(Respond(q, 500, "Error logging in", NoToken))
           bad == Done(Respond(q, 400, "Invalid email or password", NoToken))
           v == IF IsString(b.email)
                THEN findOneByEmail(vendors, normalize(b.email)) ELSE NoId
           token == sign(v, now)
       IN IF ~IsString(b.email)
          THEN req' = [req EXCEPT ![r] = err] /\ tokens' = tokens
          ELSE IF v = NoId
          THEN req' = [req EXCEPT ![r] = bad] /\ tokens' = tokens
          ELSE IF ~IsPassword(b.password)
          THEN req' = [req EXCEPT ![r] = err] /\ tokens' = tokens
          ELSE IF ~compare(b.password, vendors[v].password)
          THEN req' = [req EXCEPT ![r] = bad] /\ tokens' = tokens
          ELSE /\ token \in tokens \/ Cardinality(tokens) < MaxTokens
               /\ req' = [req EXCEPT ![r] =
                    Done(Respond(q, 200, "Vendor logged in successfully",
                                 token))]
               /\ tokens' = tokens \cup {token}
    /\ UNCHANGED <<vendors, firms, now>>

\* ------------------------------------------------------------- verifyToken
\* The whole middleware: it awaits nothing but Vendor.findById.
verifyToken(r, in) ==
    /\ Free(r)
    /\ LET tok == in.token
           q0 == NewReq("firm", in.body, tok, in.upload)
           \* if(!token){ res.status(401).json(...) } and no return
           q1 == IF tok = NoToken
                 THEN Respond(q0, 401, "Token is required", NoToken) ELSE q0
           \* try { jwt.verify(token, secretKey)
           q2 == [q1 EXCEPT !.verified = TRUE]
           q3 == [q2 EXCEPT !.lookedUp = TRUE]
           v == findById(vendors, tok.vendorId)
       IN req' = [req EXCEPT ![r] =
            IF ~jwtVerify(tok, now)
            THEN \* catch: console.log(error.message), then the 500
                 Done(Respond([q2 EXCEPT !.log = <<verifyError(tok, now)>>],
                              500, "invalid token", NoToken))
            ELSE IF v = NoId
            THEN Done(Respond(q3, 404, "Vendor not found", NoToken))
            ELSE [q3 EXCEPT !.vendorId = v, !.nextCalled = TRUE,
                            !.pc = "next"]]
    /\ UNCHANGED <<vendors, firms, tokens, now>>

\* ------------------------------------------------------ routes and multer
\* the add-firm route: the exported array [upload.single('image'), addFirm]
\* is mounted behind verifyToken, so it runs once verifyToken called next()
firmRoutes(q) == q.pc = "next"

\* filename: Date.now() + '_' + file.originalname
filename(t, originalname) == <<t, originalname>>

\* (the handler run without the upload before it)
upload_notRun(q, t) == q

\* upload.single('image'): req.file, when the request has a file part
upload(q, t) ==
    [q EXCEPT !.file = IF q.upload = NoField THEN NoFile
                       ELSE filename(t, q.upload)]

\* ----------------------------------------------------------------- addFirm
\* (the owner taken from the request body)
newFirm_vendorFromBody(b, image, vendorId) ==
    [firmName |-> b.firmName, area |-> b.area, category |-> b.category,
     region |-> b.region, image |-> image, vendor |-> b.vendor]

\* new Firm({firmName, area, category, region, offer, image, vendor})
newFirm(b, image, vendorId) ==
    [firmName |-> b.firmName, area |-> b.area, category |-> b.category,
     region |-> b.region, image |-> image, vendor |-> vendorId]

\* (the vendor looked up by the "vendor" field of the body, when it has one)
addFirm_findById_fromBody(r) ==
    /\ firmRoutes(req[r])
    /\ LET q == upload(req[r], now)
           v == findById(vendors, IF q.body.vendor # NoId THEN q.body.vendor
                                  ELSE q.vendorId)
       IN req' = [req EXCEPT ![r] =
            IF v = NoId
            THEN Done(Respond(q, 404, "Vendor not found.", NoToken))
            ELSE [q EXCEPT !.doc = vendors[v].firm, !.vendorId = v,
                           !.pc = "firm_save"]]
    /\ UNCHANGED <<vendors, firms, tokens, now>>

\* the upload and the handler up to the answer of Vendor.findById: vendor is
\* the document as it was read
addFirm_findById(r) ==
    /\ firmRoutes(req[r])
    /\ LET q == upload(req[r], now)
           v == findById(vendors, q.vendorId)
       IN req' = [req EXCEPT ![r] =
            IF v = NoId
            THEN Done(Respond(q, 404, "Vendor not found.", NoToken))
            ELSE [q EXCEPT !.doc = vendors[v].firm, !.pc = "firm_save"]]
    /\ UNCHANGED <<vendors, firms, tokens, now>>

\* (the outcome of firm.save() not waited for: the handler goes on anyway)
addFirm_firmSave_notAwaited(r, ok) ==
    /\ req[r].pc = "firm_save"
    /\ LET f == newFirm(req[r].body, req[r].file, req[r].vendorId)
           stored == ok /\ FirmValid(f) /\ FirmUnique(firms, f)
           id == Len(firms) + 1
       IN /\ stored => Len(firms) < MaxFirms
          /\ firms' = IF stored THEN Append(firms, f) ELSE firms
          /\ req' = [req EXCEPT ![r] =
                [@ EXCEPT !.firmId = id, !.doc = Append(@, id),
                          !.pc = "vendor_save"]]
    /\ UNCHANGED <<vendors, tokens, now>>

\* error.message of a rejected firm.save(): the document is validated before
\* it is sent, and the unique index is what the storage layer checks
saveError(fs, f, ok) ==
    IF ~FirmValid(f) THEN <<"Firm validation failed", invalidPaths(f)>>
    ELSE IF ~ok THEN <<"storage">>
    ELSE <<"E11000 duplicate key", "firmName">>

\* firm.save(), then vendor.firm.push(savedFirm) on the document in hand
addFirm_firmSave(r, ok) ==
    /\ req[r].pc = "firm_save"
    /\ LET f == newFirm(req[r].body, req[r].file, req[r].vendorId)
           stored == ok /\ FirmValid(f) /\ FirmUnique(firms, f)
           id == Len(firms) + 1
       IN /\ stored => Len(firms) < MaxFirms
          /\ firms' = IF stored THEN Append(firms, f) ELSE firms
          /\ req' = [req EXCEPT ![r] =
                IF stored
                THEN [@ EXCEPT !.firmId = id, !.doc = Append(@, id),
                               !.pc = "vendor_save"]
                ELSE Done(Fail(@, saveError(firms, f, ok)))]
    /\ UNCHANGED <<vendors, tokens, now>>

\* (the write dropped, and not reported, when the stored array is no longer
\* the one that was read)
pushed_ifUnchanged(stored, doc, id) ==
    IF Append(stored, id) = doc THEN doc ELSE stored

\* (the whole array written back as the handler holds it)
pushed_wholeArray(stored, doc, id) == doc

\* What vendor.save() writes after a push: mongoose sends the change of the
\* array, {$push: {firm: {$each: [id]}}}, which the stored array takes at its
\* end whatever it holds by now.
pushed(stored, doc, id) == Append(stored, id)

\* (the push written although the save is reported as failed)
addFirm_vendorSave_written(r, ok) ==
    /\ req[r].pc = "vendor_save"
    /\ LET v == req[r].vendorId
       IN vendors' = [vendors EXCEPT
                        ![v].firm = pushed(@, req[r].doc, req[r].firmId)]
    /\ req' = [req EXCEPT ![r] =
            IF ok
            THEN Done(Respond(@, 200, "Firm added successfully", NoToken))
            ELSE Done(Respond(@, 500, "Internal server error", NoToken))]
    /\ UNCHANGED <<firms, tokens, now>>

\* vendor.save() and the rest of the handler
addFirm_vendorSave(r, ok) ==
    /\ req[r].pc = "vendor_save"
    /\ LET v == req[r].vendorId
       IN vendors' =
            IF ok
            THEN [vendors EXCEPT
                    ![v].firm = pushed(@, req[r].doc, req[r].firmId)]
            ELSE vendors
    /\ req' = [req EXCEPT ![r] =
            IF ok
            THEN Done(Respond(@, 200, "Firm added successfully", NoToken))
            ELSE Done(Fail(@, <<"storage">>))]
    /\ UNCHANGED <<firms, tokens, now>>

\* ----------------------------------------------------------- getAllVendors
\* (no Firm found for any id)
populate_noFirms(vs, fs) == [i \in 1..Len(vs) |-> [vs[i] EXCEPT !.firm = <<>>]]

\* .populate("firm"): every id of a firm array that names a Firm is replaced
\* by that Firm, and an id that names none is dropped
populate(vs, fs) ==
    [i \in 1..Len(vs) |->
        [vs[i] EXCEPT !.firm =
            LET ids == SelectSeq(@, LAMBDA k : k \in 1..Len(fs))
            IN [j \in 1..Len(ids) |-> [id |-> ids[j], doc |-> fs[ids[j]]]]]]

\* res.status(status).json({message, vendors})
Send(q, status, message, vs) ==
    [q EXCEPT !.calls =
        Append(@, [status |-> status, message |-> message, token |-> NoToken,
                   vendors |-> vs])]

\* the handler up to the answer of Vendor.find(): populate has nothing to
\* ask for when no document was found
getAllVendors_find(r) ==
    /\ Free(r)
    /\ LET q == NewReq("vendors", NoBody, NoToken, NoField)
       IN req' = [req EXCEPT ![r] =
            IF Len(vendors) = 0
            THEN Done(Respond(q, 404, "No vendors found", NoToken))
            ELSE [q EXCEPT !.doc = vendors, !.pc = "populate"]]
    /\ UNCHANGED <<vendors, firms, tokens, now>>

\* the query of populate for the Firms of the documents found, and the rest
\* of the handler
getAllVendors_populate(r) ==
    /\ req[r].pc = "populate"
    /\ req' = [req EXCEPT ![r] =
            Done(Send(@, 200, "Vendors retrieved successfully",
                      populate(@.doc, firms)))]
    /\ UNCHANGED <<vendors, firms, tokens, now>>

\* ------------------------------------------------------------------- clock
Tick ==
    /\ now < MaxTime
    /\ now' = now + 1
    /\ UNCHANGED <<vendors, firms, tokens, req>>

\* ----------------------------------------------------------- specification
Init ==
    /\ vendors = <<>>
    /\ firms = <<>>
    /\ tokens = {}
    /\ now = 0
    /\ req = [r \in ReqIds |-> IdleReq]

Next ==
    \/ \E r \in ReqIds, b \in RegisterBodies : vendorRegister_findOne(r, b)
    \/ \E r \in ReqIds, ok \in BOOLEAN : vendorRegister_save(r, ok)
    \/ \E r \in ReqIds, b \in LoginBodies : vendorLogin(r, b)
    \/ \E r \in ReqIds, in \in FirmInputs : verifyToken(r, in)
    \/ \E r \in ReqIds : addFirm_findById(r)
    \/ \E r \in ReqIds, ok \in BOOLEAN : addFirm_firmSave(r, ok)
    \/ \E r \in ReqIds, ok \in BOOLEAN : addFirm_vendorSave(r, ok)

\* the requests of one hour: the clock stands
Spec == Init /\ [][Next]_vars

\* logins and add-firm requests of a registered vendor while the hours pass
InitClock ==
    /\ vendors = <<newVendor(RegisterBody(<<"u">>, <<"a">>, "p1"))>>
    /\ firms = <<>>
    /\ tokens = {}
    /\ now = 0
    /\ req = [r \in ReqIds |-> IdleReq]

NextClock ==
    \/ \E r \in ReqIds, b \in LoginBodies : vendorLogin(r, b)
    \/ \E r \in ReqIds, in \in FirmInputs : verifyToken(r, in)
    \/ \E r \in ReqIds : addFirm_findById(r)
    \/ \E r \in ReqIds, ok \in BOOLEAN : addFirm_firmSave(r, ok)
    \/ \E r \in ReqIds, ok \in BOOLEAN : addFirm_vendorSave(r, ok)
    \/ Tick

SpecClock == InitClock /\ [][NextClock]_vars

\* logins and add-firm requests of two registered vendors within one hour
InitTenants ==
    /\ vendors = << newVendor(RegisterBody(<<"u">>, <<"a">>, "p1")),
                    newVendor(RegisterBody(<<"w">>, <<"b">>, "p2")) >>
    /\ firms = <<>>
    /\ tokens = {}
    /\ now = 0
    /\ req = [r \in ReqIds |-> IdleReq]

NextTenants ==
    \/ \E r \in ReqIds, b \in LoginBodies : vendorLogin(r, b)
    \/ \E r \in ReqIds, in \in FirmInputs : verifyToken(r, in)
    \/ \E r \in ReqIds : addFirm_findById(r)
    \/ \E r \in ReqIds, ok \in BOOLEAN : addFirm_firmSave(r, ok)
    \/ \E r \in ReqIds, ok \in BOOLEAN : addFirm_vendorSave(r, ok)

SpecTenants == InitTenants /\ [][NextTenants]_vars

\* registrations, logins, add-firm requests and listings: two vendors and
\* the well formed requests of each
ListRegisterBodies ==
    { RegisterBody(<<"u">>, <<"a">>, "p1"),
      RegisterBody(<<"w">>, <<"b">>, "p2") }
ListLoginBodies == { LoginBody(b.email, b.password) : b \in ListRegisterBodies }
ListFirmInputs == { in \in FirmInputs : in.token \in tokens /\ FirmValid(
                        newFirm(in.body, NoFile, in.token.vendorId)) }

NextList ==
    \/ \E r \in ReqIds, b \in ListRegisterBodies : vendorRegister_findOne(r, b)
    \/ \E r \in ReqIds, ok \in BOOLEAN : vendorRegister_save(r, ok)
    \/ \E r \in ReqIds, b \in ListLoginBodies : vendorLogin(r, b)
    \/ \E r \in ReqIds, in \in ListFirmInputs : verifyToken(r, in)
    \/ \E r \in ReqIds : addFirm_findById(r)
    \/ \E r \in ReqIds, ok \in BOOLEAN : addFirm_firmSave(r, ok)
    \/ \E r \in ReqIds, ok \in BOOLEAN : addFirm_vendorSave(r, ok)
    \/ \E r \in ReqIds : getAllVendors_find(r)
    \/ \E r \in ReqIds : getAllVendors_populate(r)

SpecList == Init /\ [][NextList]_vars

\* ------------------------------------------------------------ what was sent
Range(f) == { f[i] : i \in DOMAIN f }

IsPrefix(s, t) == Len(s) <= Len(t) /\ SubSeq(t, 1, Len(s)) = s

\* the response the client got
Answered(q) == q.pc = "done" /\ q.calls # <<>>
Status(q) == q.calls[1].status
Message(q) == q.calls[1].message

\* ------------------------------------------------------------------ claims

\* C1: every persisted Firm has a vendor field, and it names a Vendor of the
\* Vendor collection.
C1_FirmReferencesVendor ==
    \A i \in 1..Len(firms) :
        firms[i].vendor # NoId /\ firms[i].vendor \in 1..Len(vendors)

\* addFirm has persisted a firm whose request named another vendor in its body
C1_Witness ==
    \E r \in ReqIds :
        /\ req[r].pc = "vendor_save"
        /\ req[r].body.vendor # NoId
        /\ req[r].body.vendor # req[r].vendorId
        /\ firms[req[r].firmId].vendor = req[r].vendorId

\* C2: when addFirm answers 200 for vendor V the new firm's id is in V's firm
\* list, and no step removes or reorders an entry of a vendor's firm list:
\* the list after a step starts with the list before it.
C2_Accumulates ==
    [][ /\ Len(vendors') >= Len(vendors)
        /\ \A v \in 1..Len(vendors) :
                IsPrefix(vendors[v].firm, vendors'[v].firm)
        /\ \A r \in ReqIds :
                ( /\ req[r].pc = "vendor_save"
                  /\ Answered(req'[r])
                  /\ Status(req'[r]) = 200 )
                => req[r].firmId \in Range(vendors'[req[r].vendorId].firm)
      ]_vars

\* a vendor's list has grown twice and the second addFirm answered 200
C2_Witness ==
    \E r \in ReqIds :
        /\ req[r].kind = "firm"
        /\ Answered(req[r])
        /\ Status(req[r]) = 200
        /\ Len(vendors[req[r].vendorId].firm) = 2
        /\ vendors[req[r].vendorId].firm[2] = req[r].firmId

\* C3: every firm id in a vendor V's firm list names a Firm of the Firm
\* collection whose vendor field is V.
C3_ListedFirmsPersisted ==
    \A v \in 1..Len(vendors) :
        \A k \in Range(vendors[v].firm) :
            k \in 1..Len(firms) /\ firms[k].vendor = v

\* two addFirm requests of one vendor interleave: one has linked its firm,
\* the other has persisted its firm and not linked it yet
C3_Witness ==
    \E r \in ReqIds :
        /\ req[r].pc = "vendor_save"
        /\ Len(vendors[req[r].vendorId].firm) = 1
        /\ req[r].doc = <<req[r].firmId>>

\* C4: when the vendor save of addFirm fails after the firm save succeeded,
\* addFirm answers 500, the Firm stays in the Firm collection with vendor V
\* and V's stored firm list does not contain it.
C4_NoRollback ==
    [][ \A r \in ReqIds :
            addFirm_vendorSave(r, FALSE)
            => /\ Answered(req'[r])
               /\ Status(req'[r]) = 500
               /\ firms' = firms
               /\ req[r].firmId \in 1..Len(firms')
               /\ firms'[req[r].firmId].vendor = req[r].vendorId
               /\ req[r].firmId \notin Range(vendors'[req[r].vendorId].firm)
      ]_vars

\* addFirm answered 500 and left a persisted Firm of V that V does not list
C4_Witness ==
    \E r \in ReqIds :
        /\ req[r].kind = "firm"
        /\ Answered(req[r])
        /\ Status(req[r]) = 500
        /\ req[r].firmId \in 1..Len(firms)
        /\ firms[req[r].firmId].vendor = req[r].vendorId
        /\ req[r].firmId \notin Range(vendors[req[r].vendorId].firm)

\* C5: no two Vendors of the collection have the same normalized email or
\* the same normalized username.
C5_VendorsUnique ==
    \A i, j \in 1..Len(vendors) :
        i # j => /\ normalize(vendors[i].email) # normalize(vendors[j].email)
                 /\ normalize(vendors[i].username)
                        # normalize(vendors[j].username)

\* two registrations with one address passed their existence checks before
\* either saved; one is stored and the other is about to save
C5_Witness ==
    \E r \in ReqIds :
        /\ req[r].pc = "reg_save"
        /\ \E i \in 1..Len(vendors) :
                vendors[i].email = normalize(req[r].body.email)


\* ------------------------------------------- names that are "the same"
\* two letters that differ in case at most
SameLetter(c, d) ==
    \/ c = d
    \/ {c, d} \in {{"a", "A"}, {"b", "B"}, {"u", "U"}, {"w", "W"}}

\* all of s outside s[i..j] is blank
BlankOutside(s, i, j) ==
    \A k \in 1..Len(s) : (k < i \/ k > j) => s[k] = " "

\* a and b differ only in letter case or in leading/trailing whitespace
Variant(a, b) ==
    \E ia \in 1..(Len(a) + 1), ib \in 1..(Len(b) + 1) :
        \E ja \in (ia - 1)..Len(a), jb \in (ib - 1)..Len(b) :
            /\ BlankOutside(a, ia, ja)
            /\ BlankOutside(b, ib, jb)
            /\ ja - ia = jb - ib
            /\ \A k \in 0..(ja - ia) : SameLetter(a[ia + k], b[ib + k])

\* no outer blank and no capital letter
IsCanonical(s) ==
    /\ s # <<>> => (s[1] # " " /\ s[Len(s)] # " ")
    /\ \A k \in 1..Len(s) : s[k] \notin {"A", "B", "U", "W"}

EmailTaken(b) ==
    IsString(b.email)
    /\ \E i \in 1..Len(vendors) : Variant(vendors[i].email, b.email)

UsernameTaken(b) ==
    IsString(b.username)
    /\ \E i \in 1..Len(vendors) : Variant(vendors[i].username, b.username)

Rejected400(q) ==
    /\ Answered(q)
    /\ Status(q) = 400
    /\ Message(q) = "Email or Username already exists"

\* slot r has just run vendorRegister up to the answer of its existence
\* check, for the body it holds
RegisterChecked(r) ==
    req'[r] # req[r] /\ req'[r].kind = "register" /\ req[r].pc # "reg_save"

\* slot r has just run vendorLogin, for the body it holds
LoggedIn(r) == req'[r] # req[r] /\ req'[r].kind = "login"

\* every registration that answers 201 has added one Vendor, with the
\* normalized username and email of its body and an empty firm list
Created201 ==
    \A r \in ReqIds :
        ( /\ req'[r] # req[r]
          /\ req'[r].kind = "register"
          /\ Answered(req'[r])
          /\ Status(req'[r]) = 201 )
        => /\ Len(vendors') = Len(vendors) + 1
           /\ SubSeq(vendors', 1, Len(vendors)) = vendors
           /\ LET d == vendors'[Len(vendors')]
                  b == req'[r].body
              IN /\ IsString(b.email) /\ IsString(b.username)
                 /\ Variant(d.email, b.email) /\ IsCanonical(d.email)
                 /\ Variant(d.username, b.username)
                 /\ IsCanonical(d.username)
                 /\ d.firm = <<>>

\* C6 as stated: vendorRegister called with an email or a username that is
\* already registered answers 400 "Email or Username already exists" and
\* leaves the Vendor collection unchanged, and it answers 201 only when a new
\* Vendor was persisted.
C6_AsStated ==
    [][ /\ \A r \in ReqIds :
                (RegisterChecked(r)
                    /\ (EmailTaken(req'[r].body)
                            \/ UsernameTaken(req'[r].body)))
                => (Rejected400(req'[r]) /\ vendors' = vendors)
        /\ Created201
      ]_vars

\* C6 as amended: vendorRegister called with a string email and a string
\* username of which one is already registered answers 400 "Email or Username
\* already exists" and leaves the Vendor collection unchanged; it answers 201
\* only when a new Vendor was persisted with the normalized username and
\* email and an empty firm list.
C6_DuplicateRejected ==
    [][ /\ \A r \in ReqIds :
                (RegisterChecked(r)
                    /\ IsString(req'[r].body.email)
                    /\ IsString(req'[r].body.username)
                    /\ (EmailTaken(req'[r].body)
                            \/ UsernameTaken(req'[r].body)))
                => (Rejected400(req'[r]) /\ vendors' = vendors)
        /\ Created201
      ]_vars

\* a registration with a new address and a taken username was answered 400
C6_Witness ==
    \E r \in ReqIds :
        /\ req[r].kind = "register"
        /\ Rejected400(req[r])
        /\ UsernameTaken(req[r].body)
        /\ ~EmailTaken(req[r].body)
        /\ Len(vendors) = 1

\* a login with the address and the password of a Vendor
RightLogin(b, i) ==
    /\ IsString(b.email)
    /\ Variant(vendors[i].email, b.email)
    /\ IsPassword(b.password)
    /\ vendors[i].password = hash(b.password)

LoginSucceeds(q) == Answered(q) /\ Status(q) = 200 /\ q.calls[1].token # NoToken

\* vendorLogin with any case/whitespace variant of a registered address and
\* the right password succeeds
VariantLogin ==
    \A r \in ReqIds :
        (LoggedIn(r) /\ \E i \in 1..Len(vendors) : RightLogin(req'[r].body, i))
        => LoginSucceeds(req'[r])

\* C7 as stated: once a vendor is registered with email e, vendorRegister
\* with any case/whitespace variant of e is rejected with 400, and vendorLogin
\* with any such variant and the right password succeeds.
C7_AsStated ==
    [][ /\ \A r \in ReqIds :
                (RegisterChecked(r) /\ EmailTaken(req'[r].body))
                => Rejected400(req'[r])
        /\ VariantLogin
      ]_vars

\* C7 as amended: once a vendor is registered with email e, vendorRegister
\* with any case/whitespace variant of e and a string username is rejected
\* with 400, and so is one with a variant of a registered username and a
\* string email; vendorLogin with any variant of e and the right password
\* succeeds.
C7_VariantsAreTheSame ==
    [][ /\ \A r \in ReqIds :
                (RegisterChecked(r)
                    /\ IsString(req'[r].body.email)
                    /\ IsString(req'[r].body.username)
                    /\ (EmailTaken(req'[r].body)
                            \/ UsernameTaken(req'[r].body)))
                => Rejected400(req'[r])
        /\ VariantLogin
      ]_vars

\* a login spelled differently from the stored address succeeded
C7_Witness ==
    \E r \in ReqIds :
        /\ req[r].kind = "login"
        /\ LoginSucceeds(req[r])
        /\ vendors[req[r].calls[1].token.vendorId].email # req[r].body.email

NoStoredChange == vendors' = vendors /\ firms' = firms

\* the login of slot r is answered 200 with a token of vendor i
Answers200(r, i) ==
    /\ LoginSucceeds(req'[r])
    /\ req'[r].calls[1].token.vendorId = i
    /\ req'[r].calls[1].token.key = secretKey
    /\ tokens' = tokens \cup {req'[r].calls[1].token}

AnswersNoToken(r, status, message) ==
    /\ Answered(req'[r])
    /\ Status(req'[r]) = status
    /\ Message(req'[r]) = message
    /\ req'[r].calls[1].token = NoToken
    /\ tokens' = tokens

\* C8 as stated: vendorLogin answers 200 with a token of that vendor if and
\* only if a Vendor with the normalized email exists and the password matches
\* its stored hash; otherwise it answers 400 "Invalid email or password" and
\* issues no token; login changes no stored record.
C8_AsStated ==
    [][ \A r \in ReqIds :
            LoggedIn(r)
            => /\ NoStoredChange
               /\ IF \E i \in 1..Len(vendors) : RightLogin(req'[r].body, i)
                  THEN \E i \in 1..Len(vendors) :
                            RightLogin(req'[r].body, i) /\ Answers200(r, i)
                  ELSE AnswersNoToken(r, 400, "Invalid email or password")
      ]_vars

\* the email is missing, or a Vendor has it and the password is missing
Malformed(b) ==
    \/ ~IsString(b.email)
    \/ (EmailTaken(b) /\ ~IsPassword(b.password))

\* C8 as amended: vendorLogin answers 200 with a token of that vendor if and
\* only if a Vendor with the normalized email exists and the password matches
\* its stored hash; otherwise it issues no token, and answers 400 "Invalid
\* email or password" unless the email is not a string or the password of an
\* existing vendor's login is not a string, which it answers with 500; login
\* changes no stored record.
C8_LoginOutcome ==
    [][ \A r \in ReqIds :
            LoggedIn(r)
            => /\ NoStoredChange
               /\ IF \E i \in 1..Len(vendors) : RightLogin(req'[r].body, i)
                  THEN \E i \in 1..Len(vendors) :
                            RightLogin(req'[r].body, i) /\ Answers200(r, i)
                  ELSE IF Malformed(req'[r].body)
                  THEN AnswersNoToken(r, 500, "Error logging in")
                  ELSE AnswersNoToken(r, 400, "Invalid email or password")
      ]_vars

\* a login with a registered address and another password was answered 400
C8_Witness ==
    \E r \in ReqIds :
        /\ req[r].kind = "login"
        /\ Answered(req[r])
        /\ Status(req[r]) = 400
        /\ EmailTaken(req[r].body)
        /\ \A i \in 1..Len(vendors) : ~RightLogin(req[r].body, i)

\* C9 as stated: verifyToken on a request with no token sends 401 "Token is
\* required" and stops: one response call, no token verification, no vendor
\* lookup, no next().
C9_NoTokenStops ==
    \A r \in ReqIds :
        ( /\ req[r].kind = "firm"
          /\ req[r].calls # <<>>
          /\ req[r].calls[1].status = 401 )
        => /\ req[r].calls[1].message = "Token is required"
           /\ Len(req[r].calls) = 1
           /\ ~req[r].verified
           /\ ~req[r].lookedUp
           /\ ~req[r].nextCalled

\* C10: verifyToken calls next() only for a token that verifies against the
\* signing key (signed with it and not expired) and whose vendorId names a
\* Vendor of the collection, and req.vendorId is then that id; addFirm runs
\* only for requests for which next() was called so.
C10_NextOnlyAuthenticated ==
    [][ \A r \in ReqIds :
            /\ (req'[r].pc = "next" /\ req[r].pc # "next")
               => /\ req'[r].nextCalled
                  /\ req'[r].token.key = secretKey
                  /\ now < req'[r].token.iat + ExpiresIn
                  /\ req'[r].token.vendorId \in 1..Len(vendors)
                  /\ req'[r].vendorId = req'[r].token.vendorId
            /\ (req'[r].nextCalled /\ ~req[r].nextCalled)
               => req'[r].pc = "next"
            /\ req'[r].pc \in {"firm_save", "vendor_save"}
               => /\ req'[r].nextCalled
                  /\ req'[r].token.key = secretKey
                  /\ req'[r].vendorId = req'[r].token.vendorId
                  /\ req'[r].vendorId \in 1..Len(vendors)
            /\ firms' # firms => req[r].pc = "firm_save" \/ req'[r] = req[r]
      ]_vars

\* in the second hour next() was called for a token issued in that hour
C10_Witness ==
    \E r \in ReqIds :
        /\ req[r].pc = "next"
        /\ now = 1
        /\ req[r].token.iat = 1
        /\ req[r].token \in tokens

\* slot r has just run verifyToken
Verified(r) == Over(r) /\ req'[r] # req[r] /\ req'[r].kind = "firm"

\* the request of slot r went no further than verifyToken
Refused(r) ==
    /\ req'[r].pc = "done"
    /\ ~req'[r].nextCalled
    /\ req'[r].vendorId = NoId
    /\ NoStoredChange

Call(status, message) ==
    [status |-> status, message |-> message, token |-> NoToken]

\* signed with the key and less than ExpiresIn hours old
Genuine(tok) ==
    tok # NoToken /\ tok.key = secretKey /\ now - tok.iat < ExpiresIn

C12_FirmNamesUnique ==
    \A i, j \in 1..Len(firms) :
        i # j => firms[i].firmName # firms[j].firmName

\* a Firm of one vendor is persisted and an addFirm request of another vendor
\* with the same firmName is about to save
C12_Witness ==
    \E r \in ReqIds :
        /\ req[r].pc = "firm_save"
        /\ \E i \in 1..Len(firms) :
                /\ firms[i].firmName = req[r].body.firmName
                /\ firms[i].vendor # req[r].vendorId

\* a body with a category or a region tag outside the fixed sets
OutsideTags(b) ==
    \/ \E k \in 1..Len(b.category) : b.category[k] \notin {"veg", "non-veg"}
    \/ \E k \in 1..Len(b.region) :
            b.region[k] \notin {"south-indian", "north-indian", "chinese",
                                "bakery"}

\* C13: every persisted Firm has its category tags within {veg, non-veg} and
\* its region tags within {south-indian, north-indian, chinese, bakery}, and
\* no step of an addFirm request that carries a tag outside these sets adds
\* a Firm: its save is answered 500 and the Firm collection stays as it is.
C13_TagsWithinEnums ==
    /\ [](\A i \in 1..Len(firms) : ~OutsideTags(firms[i]))
    /\ [][ \A r \in ReqIds :
                (req'[r] # req[r]
                    /\ (OutsideTags(req[r].body) \/ OutsideTags(req'[r].body)))
                => /\ firms' = firms
                   /\ req[r].pc = "firm_save"
                      => (Answered(req'[r]) /\ Status(req'[r]) = 500)
          ]_vars

\* a Firm with two category tags is persisted and the save of a request with
\* a tag outside its set was refused by the validators
C13_Witness ==
    /\ \E i \in 1..Len(firms) : Len(firms[i].category) = 2
    /\ \E r \in ReqIds :
            /\ req[r].kind = "firm"
            /\ Answered(req[r])
            /\ Status(req[r]) = 500
            /\ "details" \in DOMAIN req[r].calls[1]
            /\ req[r].calls[1].details
                    = <<"Firm validation failed", {"category"}>>

\* what makes firm.save() reject the Firm of body b
SaveRejected(b) ==
    \/ b.firmName = NoField
    \/ b.area = NoField
    \/ OutsideTags(b)
    \/ \E i \in 1..Len(firms) : firms[i].firmName = b.firmName

\* C14: when the firm save of addFirm is rejected (firmName or area missing,
\* firmName already taken, or a tag outside its set) addFirm answers 500
\* "Internal server error" and nothing else, and the request has changed
\* neither the Firm collection nor any vendor's firm list: not by that step
\* and not by the steps before it.
C14_RejectedSaveChangesNothing ==
    [][ \A r \in ReqIds :
            /\ (req[r].pc = "firm_save" /\ req'[r] # req[r]
                    /\ SaveRejected(req[r].body))
               => /\ Answered(req'[r])
                  /\ Len(req'[r].calls) = 1
                  /\ Status(req'[r]) = 500
                  /\ Message(req'[r]) = "Internal server error"
                  /\ NoStoredChange
            /\ (req'[r] # req[r] /\ req'[r].kind = "firm"
                    /\ req[r].pc \notin {"firm_save", "vendor_save"})
               => NoStoredChange
      ]_vars

\* a request whose firmName was taken was answered 500 for the duplicate
\* key, and one Firm has that name
C14_Witness ==
    \E r \in ReqIds :
        /\ req[r].kind = "firm"
        /\ Answered(req[r])
        /\ Status(req[r]) = 500
        /\ "details" \in DOMAIN req[r].calls[1]
        /\ req[r].calls[1].details = <<"E11000 duplicate key", "firmName">>
        /\ req[r].firmId = NoId
        /\ Len(firms) = 1
        /\ vendors[firms[1].vendor].firm = <<1>>

\* C15: a token vendorLogin issued is good for ExpiresIn = 1 hour:
\* verifyToken calls next() for it only while less than one hour has passed
\* since it was issued, and once the hour has passed a request that carries
\* it gets an error response and no next(), although its vendor is still in
\* the Vendor collection.
C15_TokenExpires ==
    [][ \A r \in ReqIds :
            /\ (Verified(r) /\ req'[r].nextCalled
                    /\ req'[r].token \in tokens)
               => now - req'[r].token.iat < 1
            /\ (Verified(r) /\ now >= 1)
               => \A in \in FirmInputs :
                    (in.token \in tokens /\ now - in.token.iat >= 1
                        /\ verifyToken(r, in))
                    => /\ in.token.vendorId \in 1..Len(vendors)
                       /\ Answered(req'[r])
                       /\ Status(req'[r]) >= 400
                       /\ ~req'[r].nextCalled
                       /\ req'[r].pc = "done"
      ]_vars

\* an hour after a login, a request was refused because its token had
\* expired, while a token issued in the new hour let another one through
C15_Witness ==
    /\ now = 1
    /\ \E tok \in tokens : tok.iat = 0 /\ tok.vendorId \in 1..Len(vendors)
    /\ \E r, s \in ReqIds :
            /\ req[r].log = <<"jwt expired">>
            /\ req[r].calls = <<Call(500, "invalid token")>>
            /\ ~req[r].nextCalled
            /\ req[s].pc = "next"
            /\ req[s].token.iat = 1

\* the name multer stored the file part of q under, if it has one
StoredAs(q, image) ==
    IF q.upload = NoField THEN image = NoFile
    ELSE /\ image # NoFile
         /\ image = q.file
         /\ \E t \in 0..MaxTime : image = <<t, q.upload>>

\* C16: the upload runs before addFirm: while addFirm runs, req.file is
\* there exactly when the request carried a file, under the name the file
\* was stored as, and the image field of the Firm the request persists is
\* that stored name, and is absent exactly when the request carried no file.
C16_ImageIsUploadedFile ==
    [][ \A r \in ReqIds :
            /\ req'[r].pc \in {"firm_save", "vendor_save"}
               => StoredAs(req'[r], req'[r].file)
            /\ (req[r].pc = "firm_save" /\ req'[r] # req[r]
                    /\ firms' # firms)
               => /\ Len(firms') = Len(firms) + 1
                  /\ StoredAs(req[r], firms'[Len(firms')].image)
                  /\ firms'[Len(firms')].image = NoFile
                        <=> req[r].upload = NoField
      ]_vars

\* one Firm was persisted with the stored name of its request's file, and
\* one without an image
C16_Witness ==
    /\ \E i \in 1..Len(firms) : firms[i].image = <<0, "logo.png">>
    /\ \E i \in 1..Len(firms) : firms[i].image = NoFile

\* slot r has just started a getAllVendors request
Listing(r) == Over(r) /\ req'[r] # req[r] /\ req'[r].kind = "vendors"

\* vendor document out carries the Vendor v, with every id of its firm list
\* resolved to the persisted Firm of that id
Resolved(out, v) ==
    /\ out.username = v.username
    /\ out.email = v.email
    /\ out.password = v.password
    /\ Len(out.firm) = Len(v.firm)
    /\ \A k \in 1..Len(v.firm) :
            /\ v.firm[k] \in 1..Len(firms)
            /\ out.firm[k].id = v.firm[k]
            /\ out.firm[k].doc = firms[v.firm[k]]

\* C17: getAllVendors answers 404 "No vendors found" exactly when the
\* Vendor collection is empty; otherwise it answers 200 with every Vendor
\* it found, each with the ids of its firm list resolved to the persisted
\* Firms; it changes no stored Vendor and no stored Firm.
C17_GetAllVendors ==
    [][ \A r \in ReqIds :
            /\ Listing(r)
               => /\ NoStoredChange
                  /\ (Len(vendors) = 0)
                        <=> ( /\ Answered(req'[r])
                              /\ Status(req'[r]) = 404
                              /\ Message(req'[r]) = "No vendors found" )
                  /\ Len(vendors) # 0
                        => (req'[r].pc = "populate" /\ req'[r].doc = vendors)
            /\ (req[r].pc = "populate" /\ req'[r] # req[r])
               => /\ NoStoredChange
                  /\ Answered(req'[r])
                  /\ Len(req'[r].calls) = 1
                  /\ Status(req'[r]) = 200
                  /\ LET out == req'[r].calls[1].vendors
                     IN /\ Len(out) = Len(req[r].doc)
                        /\ \A i \in 1..Len(out) :
                                Resolved(out[i], req[r].doc[i])
      ]_vars

\* before any registration a listing was answered 404, and later one was
\* answered 200 with two vendors, one of them with a resolved Firm
C17_Witness ==
    \E r, s \in ReqIds :
        /\ req[s].kind = "vendors"
        /\ Answered(req[s]) /\ Status(req[s]) = 404
        /\ req[r].kind = "vendors"
        /\ Answered(req[r]) /\ Status(req[r]) = 200
        /\ Len(req[r].calls[1].vendors) = 2
        /\ \E i \in 1..2 :
                /\ Len(req[r].calls[1].vendors[i].firm) = 1
                /\ req[r].calls[1].vendors[i].firm[1].doc.vendor = i

\* addFirm has answered the request of slot r with 200
Added(q) == q.kind = "firm" /\ Answered(q) /\ Status(q) = 200

\* C18: no update of a firm list is lost: a vendor save of addFirm that is
\* answered 200 adds the new firm id to V's stored list and keeps every id
\* the list holds by then, also the ids written since this request read V;
\* so when two addFirm requests of one vendor V have both answered 200, V's
\* stored firm list contains both new firm ids.
C18_NoLostUpdate ==
    /\ [](\A r, s \in ReqIds :
            (r # s /\ Added(req[r]) /\ Added(req[s])
                /\ req[r].vendorId = req[s].vendorId)
            => /\ req[r].firmId # req[s].firmId
               /\ {req[r].firmId, req[s].firmId}
                    \subseteq Range(vendors[req[r].vendorId].firm))
    /\ [][ \A r \in ReqIds :
                (req[r].pc = "vendor_save" /\ Added(req'[r]))
                => Range(vendors[req[r].vendorId].firm) \cup {req[r].firmId}
                    \subseteq Range(vendors'[req[r].vendorId].firm)
          ]_vars

\* two requests of one vendor have both answered 200 and the Firm that was
\* saved second is listed first: each had read the vendor before the other
\* wrote it back
C18_Witness ==
    \E r, s \in ReqIds :
        /\ r # s
        /\ Added(req[r]) /\ Added(req[s])
        /\ req[r].vendorId = req[s].vendorId
        /\ vendors[req[r].vendorId].firm = <<2, 1>>

\* slot r holds an add-firm request that verifyToken let through
Running(q) == q.pc \in {"next", "firm_save", "vendor_save"}

\* C19: a step of an add-firm request that came with a token issued to
\* vendor V changes no Vendor other than V (firm list, username, email and
\* password hash stay), changes of V nothing but its firm list, changes no
\* persisted Firm, and a Firm it adds has V in its vendor field, whatever
\* the "vendor" field of the body says.
C19_TenantIsolation ==
    [][ \A r \in ReqIds :
            (Running(req[r]) /\ req'[r] # req[r])
            => LET V == req[r].token.vendorId
               IN /\ req[r].token \in tokens
                  /\ Len(vendors') = Len(vendors)
                  /\ \A w \in 1..Len(vendors) :
                        /\ w # V => vendors'[w] = vendors[w]
                        /\ vendors'[w].username = vendors[w].username
                        /\ vendors'[w].email = vendors[w].email
                        /\ vendors'[w].password = vendors[w].password
                  /\ Len(firms') >= Len(firms)
                  /\ \A i \in 1..Len(firms') :
                        IF i <= Len(firms) THEN firms'[i] = firms[i]
                        ELSE firms'[i].vendor = V
      ]_vars

\* a request with the token of vendor 1 and vendor 2 named in its body was
\* answered 200: its Firm belongs to vendor 1 and is listed by vendor 1 only
C19_Witness ==
    \E r \in ReqIds, k \in 1..Len(firms) :
        /\ Added(req[r])
        /\ req[r].firmId = k
        /\ firms[k].firmName = "f2"
        /\ firms[k].vendor = 1
        /\ k \in Range(vendors[1].firm)
        /\ k \notin Range(vendors[2].firm)

====
